---------------------------- MODULE Spec2Model ----------------------------
(***************************************************************************)
(* Verification model of the physics-tutor web application:                *)
(*   - the generation service (retry loop with exponential backoff,        *)
(*     error classification, structured-response parsing) and the view     *)
(*     handlers that call it.                                              *)
(* Texts (error messages, payloads, user messages) are TLA+ strings, so    *)
(* substring tests and fence stripping are computed as the code computes   *)
(* them.                                                                   *)
(***************************************************************************)
EXTENDS Integers, Sequences, FiniteSets, TLC

(***************************************************************************)
(* String helpers (JavaScript String.prototype semantics)                  *)
(***************************************************************************)

\* s.includes(sub)
Includes(s, sub) ==
    \E k \in 0..(Len(s) - Len(sub)) : SubSeq(s, k + 1, k + Len(sub)) = sub

\* s.startsWith(pre)
StartsWith(s, pre) == Len(pre) <= Len(s) /\ SubSeq(s, 1, Len(pre)) = pre

\* s.endsWith(suf)
EndsWith(s, suf) ==
    Len(suf) <= Len(s) /\ SubSeq(s, Len(s) - Len(suf) + 1, Len(s)) = suf

\* the character of s at 1-based position p, "" past the end
Ch(s, p) == IF p >= 1 /\ p <= Len(s) THEN SubSeq(s, p, p) ELSE ""

\* white space removed by String.prototype.trim
JsWhitespace == {" ", "\n", "\t", "\r", "\f"}

RECURSIVE TrimStart(_)
TrimStart(s) ==
    IF Len(s) > 0 /\ Ch(s, 1) \in JsWhitespace
    THEN TrimStart(SubSeq(s, 2, Len(s)))
    ELSE s

RECURSIVE TrimEnd(_)
TrimEnd(s) ==
    IF Len(s) > 0 /\ Ch(s, Len(s)) \in JsWhitespace
    THEN TrimEnd(SubSeq(s, 1, Len(s) - 1))
    ELSE s

\* s.trim()
Trim(s) == TrimEnd(TrimStart(s))

\* The markdown fence is three grave accents (U+0060).  The TLA+ tools do not
\* accept that character inside a string, so the model writes it as a tilde.
GraveAccent == "~"
Fence == GraveAccent \o GraveAccent \o GraveAccent
JsonFence == Fence \o "json"
HtmlFence == Fence \o "html"

\* s.replace(/^<fence>\n?/, ''): one optional fence token at the very start,
\* with the line feed that may follow it
ReplaceLeadingFence(s, fence) ==
    IF StartsWith(s, fence)
    THEN IF Ch(s, Len(fence) + 1) = "\n"
         THEN SubSeq(s, Len(fence) + 2, Len(s))
         ELSE SubSeq(s, Len(fence) + 1, Len(s))
    ELSE s

\* s.replace(/<fence>$/, ''): one optional bare fence at the very end
ReplaceTrailingFence(s) ==
    IF EndsWith(s, Fence) THEN SubSeq(s, 1, Len(s) - Len(Fence)) ELSE s

(***************************************************************************)
(* JSON.parse, for the JSON texts built from objects, arrays, strings      *)
(* without escapes, unsigned integers and the three literals.  A decoded   *)
(* value is represented by its canonical text (insignificant white space   *)
(* removed), so two texts decode to the same value iff the canonical       *)
(* texts are equal.                                                        *)
(***************************************************************************)

JsonWhitespace == {" ", "\n", "\t", "\r"}
Digits == {"0", "1", "2", "3", "4", "5", "6", "7", "8", "9"}

ParseFail == [ok |-> FALSE, pos |-> 0, canon |-> ""]
ParseOk(p, c) == [ok |-> TRUE, pos |-> p, canon |-> c]

RECURSIVE SkipWs(_, _)
SkipWs(s, p) == IF Ch(s, p) \in JsonWhitespace THEN SkipWs(s, p + 1) ELSE p

\* position of the quote closing the string opened before p, 0 if none
RECURSIVE ScanString(_, _)
ScanString(s, p) ==
    IF p > Len(s) THEN 0
    ELSE IF Ch(s, p) = "\"" THEN p
    ELSE IF Ch(s, p) \in {"\n", "\t", "\r", "\f", "\\"} THEN 0
    ELSE ScanString(s, p + 1)

RECURSIVE ScanDigits(_, _)
ScanDigits(s, p) == IF Ch(s, p) \in Digits THEN ScanDigits(s, p + 1) ELSE p

ParseString(s, p) ==
    LET q == ScanString(s, p + 1)
    IN  IF Ch(s, p) = "\"" /\ q > 0 THEN ParseOk(q + 1, SubSeq(s, p, q))
        ELSE ParseFail

ParseNumber(s, p) ==
    LET q == IF Ch(s, p) = "0" THEN p + 1 ELSE ScanDigits(s, p)
    IN  IF q > p THEN ParseOk(q, SubSeq(s, p, q - 1)) ELSE ParseFail

ParseLiteral(s, p, word) ==
    IF p + Len(word) - 1 <= Len(s) /\ SubSeq(s, p, p + Len(word) - 1) = word
    THEN ParseOk(p + Len(word), word)
    ELSE ParseFail

RECURSIVE ParseValue(_, _)
RECURSIVE ParseElements(_, _, _)
RECURSIVE ParseMembers(_, _, _)

\* the elements of an array after "[" or ",": acc is the canonical text so far
ParseElements(s, p, acc) ==
    LET v == ParseValue(s, SkipWs(s, p))
        q == SkipWs(s, v.pos)
    IN  IF ~v.ok THEN ParseFail
        ELSE IF Ch(s, q) = "]" THEN ParseOk(q + 1, acc \o v.canon \o "]")
        ELSE IF Ch(s, q) = "," THEN ParseElements(s, q + 1, acc \o v.canon \o ",")
        ELSE ParseFail

\* the members of an object after "{" or ","
ParseMembers(s, p, acc) ==
    LET k == ParseString(s, SkipWs(s, p))
        c == SkipWs(s, k.pos)
        v == ParseValue(s, SkipWs(s, c + 1))
        q == SkipWs(s, v.pos)
        m == acc \o k.canon \o ":" \o v.canon
    IN  IF ~k.ok \/ Ch(s, c) # ":" THEN ParseFail
        ELSE IF ~v.ok THEN ParseFail
        ELSE IF Ch(s, q) = "}" THEN ParseOk(q + 1, m \o "}")
        ELSE IF Ch(s, q) = "," THEN ParseMembers(s, q + 1, m \o ",")
        ELSE ParseFail

ParseValue(s, p) ==
    LET c == Ch(s, p)
    IN  IF c = "[" THEN
            IF Ch(s, SkipWs(s, p + 1)) = "]"
            THEN ParseOk(SkipWs(s, p + 1) + 1, "[]")
            ELSE ParseElements(s, p + 1, "[")
        ELSE IF c = "{" THEN
            IF Ch(s, SkipWs(s, p + 1)) = "}"
            THEN ParseOk(SkipWs(s, p + 1) + 1, "{}")
            ELSE ParseMembers(s, p + 1, "{")
        ELSE IF c = "\"" THEN ParseString(s, p)
        ELSE IF c \in Digits THEN ParseNumber(s, p)
        ELSE IF c = "t" THEN ParseLiteral(s, p, "true")
        ELSE IF c = "f" THEN ParseLiteral(s, p, "false")
        ELSE IF c = "n" THEN ParseLiteral(s, p, "null")
        ELSE ParseFail

\* JSON.parse(s): [ok |-> TRUE, value |-> canonical text] or a SyntaxError
JSONparse(s) ==
    LET v == ParseValue(s, SkipWs(s, 1))
    IN  IF v.ok /\ SkipWs(s, v.pos) = Len(s) + 1
        THEN [ok |-> TRUE, value |-> v.canon]
        ELSE [ok |-> FALSE, value |-> ""]

(***************************************************************************)
(* Errors                                                                  *)
(***************************************************************************)

\* no error caught yet (lastError is undefined)
NoError == [name |-> "", message |-> ""]

\* new Error(message)
NewError(message) == [name |-> "Error", message |-> message]

\* Error.prototype.toString, as error.toString() evaluates it
errorToString(e) ==
    IF e.name = "" THEN e.message
    ELSE IF e.message = "" THEN e.name
    ELSE e.name \o ": " \o e.message

\* The messages of the source are written in Traditional Chinese, which the
\* TLA+ tools do not accept inside a string.  The model writes each message
\* in English and keeps every ASCII fragment of the source text (such as the
\* digits 400 and the words AI and API) where it stands.

\* the messages handleApiError can hand to a view
MsgGeneric == "An error occurred while fetching data from the AI server. Please try again later."
MsgServer == "The AI server is currently unreachable or had an internal error, please try again later."
MsgBadRequest == "The request sent to the AI server is malformed (error 400), possibly because the input contains unsafe or unsupported words."
MsgRateLimit == "Your request rate is too high, please try again later."
MsgApiKey == "API key is invalid or not set, please check your environment settings."

\* the messages of the errors the service itself throws
MsgEmptyResponse == "AI returned an empty or invalid response."
MarkEmptyChat == "AI response invalid"
MsgEmptyChat == MarkEmptyChat \o ", it contains no text."
MsgBadFormat == "AI returned data in an unexpected format, it cannot be parsed."

\* handleApiError with the first two tests in the opposite order
handleApiError_400First(error) ==
    LET errorMessage == errorToString(error)
    IN  NewError(
          IF Includes(errorMessage, "400") THEN MsgBadRequest
          ELSE IF Includes(errorMessage, "500") \/ Includes(errorMessage, "503")
                  \/ Includes(errorMessage, "Rpc failed") THEN MsgServer
          ELSE IF Includes(errorMessage, "429") THEN MsgRateLimit
          ELSE IF Includes(errorMessage, "API key not valid")
                  \/ Includes(errorMessage, "API_KEY") THEN MsgApiKey
          ELSE MsgGeneric)

\* handleApiError(error, context): the Error carrying the user-readable message
handleApiError(error) ==
    LET errorMessage == errorToString(error)
    IN  NewError(
          IF Includes(errorMessage, "500") \/ Includes(errorMessage, "503")
             \/ Includes(errorMessage, "Rpc failed") THEN MsgServer
          ELSE IF Includes(errorMessage, "400") THEN MsgBadRequest
          ELSE IF Includes(errorMessage, "429") THEN MsgRateLimit
          ELSE IF Includes(errorMessage, "API key not valid")
                  \/ Includes(errorMessage, "API_KEY") THEN MsgApiKey
          ELSE MsgGeneric)

\* cleanedText without the removal of the trailing fence
CleanedText_KeepTrailingFence(text) == ReplaceLeadingFence(Trim(text), JsonFence)

\* cleanedText of parseJsonFromResponse:
\* text.trim().replace(/^<fence>json\n?/, '').replace(/<fence>$/, '')
CleanedText(text) ==
    ReplaceTrailingFence(ReplaceLeadingFence(Trim(text), JsonFence))

\* parseJsonFromResponse(text): the decoded value, or the Error it throws
parseJsonFromResponse(text) ==
    LET parsed == JSONparse(CleanedText(text))
    IN  IF parsed.ok
        THEN [ok |-> TRUE, value |-> parsed.value, error |-> NoError]
        ELSE [ok |-> FALSE, value |-> "", error |-> NewError(MsgBadFormat)]

\* generateSimulationCode: the cleaning of the returned HTML
CleanSimulationCode(text) ==
    ReplaceTrailingFence(ReplaceLeadingFence(Trim(text), HtmlFence))

(***************************************************************************)
(* The generation service and its callers                                  *)
(***************************************************************************)

\* the features of the application that call the generation service
Features == {"tutor", "summary", "problems", "diagram", "lab"}

\* generateContentWithRetry: default values of its parameters
DefaultRetries == 5
DefaultDelay == 3000
\* getSocraticResponse: its retry budget and first base delay
SocraticRetries == 5
SocraticDelay == 3000
\* Math.floor(Math.random() * 1000) lies in 0 .. JitterRange - 1
JitterRange == 1000

\* largest maxAttempts a run of generateContentWithRetry is started with
MaxRetries == 5
\* the values of maxAttempts a run of generateContentWithRetry is started with
RetryBudgets == 1..MaxRetries \cup {DefaultRetries}
\* the initial delays a run of generateContentWithRetry is started with
InitialDelays == {1, DefaultDelay}
\* the values of the jitter the model draws: both ends of its range and
\* the values next to them
JitterSamples == {0, 1, JitterRange - 2, JitterRange - 1}

\* failures of the underlying call (ai.models.generateContent, chat.sendMessage)
ApiErrors ==
    { [name |-> "ApiError", message |-> "got status: 500 INTERNAL"],
      [name |-> "ApiError", message |-> "got status: 503 UNAVAILABLE"],
      [name |-> "ApiError", message |-> "got status: 429 RESOURCE_EXHAUSTED"],
      [name |-> "Error", message |-> "Rpc failed due to xhr error"],
      [name |-> "ApiError", message |-> "got status: 400 INVALID_ARGUMENT"],
      [name |-> "ApiError", message |-> "got status: 400 API key not valid"],
      [name |-> "ApiError", message |-> "got status: 429 limit 4000 reached"],
      [name |-> "ApiError", message |-> "got status: 400 payload over 5000"],
      [name |-> "Error", message |-> "API key not valid"],
      [name |-> "Error", message |-> "API_KEY is missing"],
      [name |-> "TypeError", message |-> "Failed to fetch"] }

\* text of a response of the underlying call; "" is a response without text
ResponseTexts ==
    { "",
      "{\"a\":1}",
      JsonFence \o "\n{\"a\":1}\n" \o Fence,
      HtmlFence \o "\n<b>x</b>\n" \o Fence,
      "not json" }

Outcomes ==
    { [kind |-> "error", text |-> "", error |-> e] : e \in ApiErrors }
    \cup { [kind |-> "response", text |-> t, error |-> NoError] : t \in ResponseTexts }

NoOutcome == [kind |-> "none", text |-> "", error |-> NoError]

\* what the user typed or chose: an empty field, or a question
Inputs == {"", "  ", "F = ma?"}

\* fallback texts of the views, used when a caught error has no message
FallbackMessage(f) ==
    CASE f = "tutor" -> "Sorry, I cannot answer right now. Please try again later."
      [] f = "summary" -> "Cannot generate the summary, please try again later."
      [] f = "problems" -> "Cannot generate the study pack, please try again later."
      [] f = "diagram" -> "Cannot analyze the image, please try again later."
      [] OTHER -> "Cannot generate the simulation, please try again later."

Greeting == [role |-> "model", text |-> "Hello! What physics question can I guide you through?"]

VARIABLES
    feature,        \* the feature whose handler is running, "none" before
    input,          \* the text the handler was started with
    retries,        \* maxAttempts of the running retry loop
    initialDelay,   \* the delay the running retry loop was started with
    pc,             \* "idle", "call" (request in flight), "wait" (backoff
                    \* timer running), "done"
    i,              \* loop index of the retry loop
    delay,          \* current base delay of the retry loop
    lastError,      \* lastError of the retry loop
    outcome,        \* how the most recent underlying call ended
    attempts,       \* number of underlying calls that have ended
    waits,          \* number of backoff waits started
    lastWait,       \* nextDelay of the most recent backoff wait
    loopResult,     \* what the retry loop returned or threw
    svc,            \* how the promise of the exported service function settled
    isLoading,      \* isLoading of the view
    uiError,        \* error of the view, "" for null
    uiResult,       \* result state of the view (summary, problems, feedback, code)
    messages,       \* messages of the tutor view
    rawText,        \* the text handed to a run of parseJsonFromResponse
    parseOut,       \* what that run returned or threw
    exportVersion,  \* which of the three exportToPdf functions is running
    htmlBlocks,     \* the elements of htmlContent the selector matches, in
                    \* document order, each with the canvas it rasterizes to
    wholeCanvas,    \* the canvas the whole content rasterizes to
    epc,            \* "idle", "loop" (at the head of the for loop), "raster"
                    \* (awaiting html2canvas), "saved", "failed"
    contentBlocks,  \* contentBlocks of exportToPdf
    blockIndex,     \* position of the for loop in contentBlocks
    currentY,       \* currentY of exportToPdf
    pageCount,      \* number of pages of the jsPDF document
    placements,     \* what was added to the document, in the order it was added
    savedFile,      \* TRUE when pdf.save was called
    alertShown,     \* TRUE when the failure alert was shown
    bodyChildren,   \* the containers attached to document.body
    exportLog,      \* the steps exportToPdf took on blocks, in order
    exportPromise,  \* the promise exportToPdf returned: "none", "pending",
                    \* "resolved", "rejected"
    callerError,    \* the error state of the view whose handleExport ran
    tutorVersion,   \* which of the two SocraticTutor components is mounted
    outstanding,    \* the getSocraticResponse calls not settled yet
    accepted,       \* number of submissions handleSubmit accepted
    answered,       \* for each message, the submission it belongs to
    overlapped,     \* TRUE when a submission was accepted while a call was outstanding
    activeView,     \* activeView of App, "none" when no application is modelled
    apiKey,         \* process.env.API_KEY as the build left it, "" for undefined
    appState,       \* "unloaded", "failed" (the service module threw), "ready"
    aiClient,       \* TRUE when the GoogleGenAI client exists
    reloads,        \* number of page reloads
    topic,          \* topic of the problem generator
    prompt,         \* prompt of the virtual lab or of the diagram analyzer
    problems,       \* problems of the problem generator
    summary,        \* summary of the problem generator, "" for null
    selectedOptions, \* selectedOptions of the problem generator, "" for undefined
    showSolutions,  \* showSolutions of the problem generator
    imageFile,      \* imageFile of the diagram analyzer, "" for null
    feedbackOf,     \* the image file the feedback shown was produced from
    pending         \* the service calls of the mounted view not settled yet

loopVars == <<feature, input, retries, initialDelay, pc, i, delay, lastError,
              outcome, attempts, waits, lastWait, loopResult, svc>>
viewVars == <<isLoading, uiError, uiResult, messages>>
parseVars == <<rawText, parseOut>>

\* the state outside a run of a generation feature
exportVars == <<exportVersion, htmlBlocks, wholeCanvas, epc,
                contentBlocks, blockIndex, currentY, pageCount, placements,
                savedFile, alertShown, bodyChildren, exportLog,
                exportPromise, callerError>>
tutorVars == <<tutorVersion, outstanding, accepted, answered, overlapped>>
appVars == <<activeView, apiKey, appState, aiClient, reloads, topic, prompt, problems,
             summary, selectedOptions, showSolutions, imageFile, feedbackOf, pending>>
outsideGeneration == <<parseVars, exportVars, tutorVars, appVars>>

NotParsed == [ok |-> FALSE, value |-> "", error |-> NoError]
NoResult == [kind |-> "none", text |-> "", error |-> NoError]
Pending == [status |-> "pending", value |-> "", message |-> ""]

\* a classification that does not know the rate-limit status 429
IsRetryableGenerate_No429(errorMessage) ==
    \/ Includes(errorMessage, "500")
    \/ Includes(errorMessage, "503")
    \/ Includes(errorMessage, "Rpc failed")

\* isRetryable of generateContentWithRetry
IsRetryableGenerate(errorMessage) ==
    \/ Includes(errorMessage, "500")
    \/ Includes(errorMessage, "503")
    \/ Includes(errorMessage, "429")
    \/ Includes(errorMessage, "Rpc failed")

\* isRetryable of getSocraticResponse
IsRetryableSocratic(errorMessage) ==
    \/ Includes(errorMessage, "500")
    \/ Includes(errorMessage, "503")
    \/ Includes(errorMessage, "429")
    \/ Includes(errorMessage, "Rpc failed")
    \/ Includes(errorMessage, MarkEmptyChat)

\* the error thrown inside the try block for a response without text
EmptyResponseError(f) ==
    IF f = "tutor" THEN NewError(MsgEmptyChat) ELSE NewError(MsgEmptyResponse)

\* a guard that lets every response through
IsEmptyResponse_Never(text) == FALSE

\* the guard of the response: !response || !response.text, !responseText
IsEmptyResponse(text) == text = ""

\* a catch block that keeps the first error it caught
CatchKeepFirst(previous, error) == IF previous = NoError THEN error ELSE previous

\* lastError = error
CatchAssign(previous, error) == error

\* a retry test that ignores the classification of the error
ShouldRetry_AnyError(isRetryable, index, maxAttempts) == index < maxAttempts - 1

\* a retry test that also waits after the last attempt
ShouldRetry_WaitAfterLast(isRetryable, index, maxAttempts) ==
    isRetryable /\ index < maxAttempts

\* isRetryable && i < retries - 1
ShouldRetry(isRetryable, index, maxAttempts) ==
    isRetryable /\ index < maxAttempts - 1

\* a backoff that doubles the delay it just waited, jitter included
NextBaseDelay_FromWait(baseDelay, nextDelay) == nextDelay * 2

\* delay *= 2
NextBaseDelay(baseDelay, nextDelay) == baseDelay * 2

\* const nextDelay = delay + jitter
NextDelay(baseDelay, jitter) == baseDelay + jitter

\* what the retry loop throws when it gives up: generateContentWithRetry
\* throws lastError itself, getSocraticResponse throws handleApiError(lastError)
LoopThrows(f, error) ==
    IF f = "tutor" THEN handleApiError(error) ELSE error

\* how the exported service function settles once its retry loop has
\* returned text (ok) or thrown error
ServiceResult(f, ok, text, error) ==
    LET rejected(e) == [status |-> "rejected", value |-> "", message |-> e.message]
        resolved(v) == [status |-> "resolved", value |-> v, message |-> ""]
    IN  IF f = "tutor" THEN
            IF ok THEN resolved(text) ELSE rejected(error)
        ELSE IF ~ok THEN rejected(handleApiError(error))
        ELSE IF f \in {"summary", "problems"} THEN
            LET data == parseJsonFromResponse(text)
            IN  IF data.ok THEN resolved(data.value)
                ELSE rejected(handleApiError(data.error))
        ELSE IF f = "lab" THEN resolved(CleanSimulationCode(text))
        ELSE resolved(text)

\* (e as Error).message || fallback
MessageOrFallback(f, message) == IF message = "" THEN FallbackMessage(f) ELSE message

\* the continuation of the view handler after the awaited service call:
\* the try or the catch branch, then finally; r is the settled value of the
\* call, computed once
Settle(result) ==
    \E r \in {result} :
        /\ pc' = "done"
        /\ svc' = r
        /\ isLoading' = FALSE
        /\ IF feature = "tutor"
           THEN /\ messages' = Append(messages,
                      [role |-> "model",
                       text |-> IF r.status = "resolved" THEN r.value
                                ELSE MessageOrFallback(feature, r.message)])
                /\ UNCHANGED <<uiError, uiResult>>
           ELSE /\ IF r.status = "resolved"
                   THEN uiResult' = r.value /\ UNCHANGED uiError
                   ELSE uiError' = MessageOrFallback(feature, r.message) /\ UNCHANGED uiResult
                /\ UNCHANGED messages

\* no run of parseJsonFromResponse on its own
ParseIdle == rawText = [lead |-> "", payload |-> "", trail |-> ""] /\ parseOut = NotParsed

\* no run of exportToPdf
ExportIdle ==
    /\ exportVersion = "none" /\ htmlBlocks = <<>>
    /\ wholeCanvas = [width |-> 0, height |-> 0]
    /\ epc = "idle" /\ contentBlocks = <<>> /\ blockIndex = 0
    /\ currentY = 0 /\ pageCount = 0 /\ placements = <<>>
    /\ savedFile = FALSE /\ alertShown = FALSE /\ bodyChildren = {}
    /\ exportLog = <<>>
    /\ exportPromise = "none" /\ callerError = ""

\* no tutor view with calls of its own
TutorIdle ==
    /\ tutorVersion = "none" /\ outstanding = {} /\ accepted = 0
    /\ answered = <<>> /\ overlapped = FALSE

\* the most problems a generated list holds
MaxProblems == 2
ProblemIndexes == 1..MaxProblems
NoOption == ""
NoSelections == [index \in ProblemIndexes |-> NoOption]
NoneShown == [index \in ProblemIndexes |-> FALSE]

\* no application around the subsystem at hand
AppIdle ==
    /\ activeView = "none" /\ apiKey = "" /\ appState = "unloaded"
    /\ aiClient = FALSE /\ reloads = 0
    /\ topic = "" /\ prompt = "" /\ problems = <<>> /\ summary = ""
    /\ selectedOptions = NoSelections /\ showSolutions = NoneShown
    /\ imageFile = "" /\ feedbackOf = "" /\ pending = {}

GenerationInit ==
    /\ feature = "none" /\ input = "" /\ retries = 0 /\ initialDelay = 0
    /\ pc = "idle" /\ i = 0 /\ delay = 0 /\ lastError = NoError
    /\ outcome = NoOutcome /\ attempts = 0 /\ waits = 0 /\ lastWait = 0
    /\ loopResult = NoResult /\ svc = Pending
    /\ isLoading = FALSE /\ uiError = "" /\ uiResult = ""
    /\ messages = <<Greeting>>

Init == GenerationInit /\ ParseIdle /\ ExportIdle /\ TutorIdle /\ AppIdle

\* handleSubmit, handleGenerateSummary, handleGenerateStudyPack, handleAnalyze,
\* handleGenerate: the handler of feature f up to the first underlying call.
\* n and d are the parameters of the retry loop.
Submit(f, text, n, d) ==
    /\ pc = "idle"
    /\ Trim(text) # ""
    /\ f = "tutor" => ~isLoading
    /\ IF f = "tutor" THEN n = SocraticRetries /\ d = SocraticDelay
       ELSE n \in RetryBudgets /\ d \in InitialDelays
    /\ feature' = f /\ input' = text /\ retries' = n /\ initialDelay' = d
    /\ isLoading' = TRUE
    /\ uiError' = ""
    /\ uiResult' = ""
    /\ messages' = IF f = "tutor"
                   THEN Append(messages, [role |-> "user", text |-> Trim(text)])
                   ELSE messages
    /\ i' = 0 /\ delay' = d /\ lastError' = NoError
    /\ pc' = "call"
    /\ UNCHANGED <<outcome, attempts, waits, lastWait, loopResult, svc>>
    /\ UNCHANGED outsideGeneration

\* The underlying call of iteration i ends with outcome o; the loop body
\* runs to its return, to its throw or to the start of the backoff timer.
\* The constants of the catch block (error, errorMessage, isRetryable and
\* the error kept in lastError) are bound as the only elements of one-element
\* sets, so that each is computed once per step.
Attempt(o, jitter) ==
    /\ pc = "call"
    /\ attempts' = attempts + 1
    /\ outcome' = o
    /\ IF o.kind = "response" /\ ~IsEmptyResponse(o.text)
       THEN /\ loopResult' = [kind |-> "returned", text |-> o.text, error |-> NoError]
            /\ Settle(ServiceResult(feature, TRUE, o.text, NoError))
            /\ UNCHANGED <<i, delay, lastError, waits, lastWait>>
       ELSE \E error \in {IF o.kind = "error" THEN o.error
                          ELSE EmptyResponseError(feature)} :
            \E errorMessage \in {errorToString(error)} :
            \E isRetryable \in {IF feature = "tutor"
                                THEN IsRetryableSocratic(errorMessage)
                                ELSE IsRetryableGenerate(errorMessage)},
               caught \in {CatchAssign(lastError, error)} :
                /\ lastError' = caught
                /\ IF ShouldRetry(isRetryable, i, retries)
                   THEN /\ lastWait' = NextDelay(delay, jitter)
                        /\ waits' = waits + 1
                        /\ pc' = "wait"
                        /\ UNCHANGED <<i, delay, loopResult, svc>>
                        /\ UNCHANGED viewVars
                   ELSE /\ loopResult' = [kind |-> "threw", text |-> "",
                                          error |-> LoopThrows(feature, caught)]
                        /\ Settle(ServiceResult(feature, FALSE, "",
                                                LoopThrows(feature, caught)))
                        /\ UNCHANGED <<i, delay, waits, lastWait>>
    /\ UNCHANGED <<feature, input, retries, initialDelay>>
    /\ UNCHANGED outsideGeneration

\* The backoff timer fires: the base delay is doubled and the loop goes to
\* its next iteration, or falls out of the loop and throws.
BackoffElapsed ==
    /\ pc = "wait"
    /\ delay' = NextBaseDelay(delay, lastWait)
    /\ i' = i + 1
    /\ IF i + 1 < retries
       THEN /\ pc' = "call"
            /\ UNCHANGED <<loopResult, svc>>
            /\ UNCHANGED viewVars
       ELSE /\ loopResult' = [kind |-> "threw", text |-> "",
                              error |-> LoopThrows(feature, lastError)]
            /\ Settle(ServiceResult(feature, FALSE, "", LoopThrows(feature, lastError)))
    /\ UNCHANGED <<feature, input, retries, initialDelay, lastError,
                   outcome, attempts, waits, lastWait>>
    /\ UNCHANGED outsideGeneration

vars == <<loopVars, viewVars, parseVars, exportVars, tutorVars, appVars>>

Next ==
    \/ pc = "idle" /\ \E f \in Features, text \in Inputs, n \in RetryBudgets,
                         d \in InitialDelays \cup {SocraticDelay} : Submit(f, text, n, d)
    \/ pc = "call" /\ \E o \in Outcomes, jitter \in JitterSamples : Attempt(o, jitter)
    \/ BackoffElapsed

Spec == Init /\ [][Next]_vars

\* the backoff timer fires and every underlying call ends
FairSpec ==
    /\ Spec
    /\ WF_vars(pc = "call" /\ \E o \in Outcomes, jitter \in JitterSamples : Attempt(o, jitter))
    /\ WF_vars(BackoffElapsed)

(***************************************************************************)
(* parseJsonFromResponse on its own: the text is a payload between a       *)
(* leading and a trailing piece                                            *)
(***************************************************************************)

Payloads ==
    { "{\"a\":1}", " [1, 2] ", "7", "null", "\"" \o Fence \o "\"",
      "{\"k\":\"" \o JsonFence \o "\"}", "not json", "", "{\"a\":}", "[1" }

Leads ==
    { "", JsonFence, JsonFence \o "\n", " \n" \o JsonFence \o "\n",
      JsonFence \o "\n" \o JsonFence \o "\n", JsonFence \o JsonFence,
      Fence \o "\n", HtmlFence \o "\n", "\n" }

Trails ==
    { "", Fence, "\n" \o Fence, "\n" \o Fence \o " \n", Fence \o Fence,
      "\n" \o Fence \o "\n" \o Fence, GraveAccent \o GraveAccent, "\f" }

genVars == <<loopVars, viewVars>>

ParseInit ==
    /\ GenerationInit /\ ExportIdle /\ TutorIdle /\ AppIdle
    /\ rawText \in [lead : Leads, payload : Payloads, trail : Trails]
    /\ parseOut = NotParsed

\* the text of a response as the service receives it
TextOf(t) == t.lead \o t.payload \o t.trail

\* one call of parseJsonFromResponse
ParseResponse ==
    /\ parseOut = NotParsed
    /\ parseOut' = parseJsonFromResponse(TextOf(rawText))
    /\ UNCHANGED <<rawText, genVars, exportVars, tutorVars, appVars>>

ParseNext == ParseResponse

SpecParse == ParseInit /\ [][ParseNext]_vars

(***************************************************************************)
(* Properties of the retry loop                                            *)
(***************************************************************************)

\* an error text that names a transient failure of the service: overload,
\* rate limit or transport failure
IsTransientText(errorMessage) ==
    \E marker \in {"500", "503", "429", "Rpc failed"} : Includes(errorMessage, marker)

\* the most recent underlying call failed with a transient error
LastCallTransient ==
    outcome.kind = "error" /\ IsTransientText(errorToString(outcome.error))

\* the most recent underlying call failed with an error that is not transient
LastCallPermanent ==
    outcome.kind = "error" /\ ~IsTransientText(errorToString(outcome.error))

\* the most recent underlying call returned a response that carries no text
LastCallEmpty == outcome.kind = "response" /\ outcome.text = ""

\* the most recent underlying call returned a response that carries text
LastCallSucceeded == outcome.kind = "response" /\ outcome.text # ""

\* the retry loop is still running: a call is in flight or the timer runs
LoopRunning == pc \in {"call", "wait"}

\* the error the loop hands on when it gives up on error e: the error itself
\* in generateContentWithRetry, its conversion in getSocraticResponse
Propagated(e) == IF feature = "tutor" THEN handleApiError(e) ELSE e

\* C1: for every maxAttempts = n >= 1, while the underlying call keeps
\* failing with a transient error (500, 503, 429, Rpc failed) the loop keeps
\* running until n attempts have been made, and after the n-th such failure
\* it has made exactly n attempts and has thrown the error of that n-th
\* attempt (getSocraticResponse throws it converted by handleApiError).
C1_RetryableExhausts ==
    LastCallTransient =>
        /\ attempts <= retries
        /\ attempts < retries => LoopRunning
        /\ attempts = retries =>
              /\ pc = "done"
              /\ loopResult.kind = "threw"
              /\ loopResult.error = Propagated(outcome.error)

C1_Witness ==
    /\ pc = "done" /\ feature = "summary" /\ retries = MaxRetries
    /\ LastCallTransient /\ attempts = retries
    /\ loopResult.error = outcome.error

\* C2: a failure that is not retryable ends the loop at once, whatever
\* maxAttempts is and whatever attempt it occurs on: the loop has thrown, no
\* wait was started for it and, when it was the first failure, exactly one
\* attempt was made.
C2_NonRetryableStops ==
    LastCallPermanent =>
        /\ pc = "done"
        /\ loopResult.kind = "threw"
        /\ waits = attempts - 1
        /\ waits = 0 => attempts = 1

C2_Witness ==
    /\ pc = "done" /\ LastCallPermanent /\ attempts = 1 /\ retries = MaxRetries

C2_WitnessLater ==
    /\ pc = "done" /\ LastCallPermanent /\ attempts = 3 /\ retries = MaxRetries

\* C3: a response without text is never returned to the caller and, while
\* attempts remain, it causes another attempt, in generateContentWithRetry
\* and in getSocraticResponse alike.
C3_EmptyIsRetried ==
    LastCallEmpty =>
        /\ loopResult.kind # "returned"
        /\ attempts < retries => LoopRunning

\* C3, the part that holds of both loops: the response without text is
\* never returned; and in getSocraticResponse it is retried.
C3_EmptyNeverReturned ==
    LastCallEmpty =>
        /\ loopResult.kind # "returned"
        /\ svc.status # "resolved"
        /\ (feature = "tutor" /\ attempts < retries) => LoopRunning

\* C4: the k-th wait (k >= 1) lasts initialDelay * 2^(k-1) + jitter with
\* 0 <= jitter < 1000, and the base delay is initialDelay doubled once per
\* completed wait: no jitter enters it.
C4_BackoffDelay ==
    pc # "idle" =>
        /\ delay = initialDelay * 2^i
        /\ pc = "wait" => waits = i + 1
        /\ waits >= 1 =>
              (lastWait - initialDelay * 2^(waits - 1)) \in 0..(JitterRange - 1)

C4_Witness ==
    /\ pc = "wait" /\ waits = 3
    /\ lastWait = initialDelay * 4 + JitterRange - 1

\* C5 (state part): at most maxAttempts attempts are made; an attempt that
\* returns text ends the loop, which returns that text; the loop returns
\* nothing else.
C5_Bounded ==
    /\ attempts <= retries
    /\ LastCallSucceeded =>
          /\ pc = "done"
          /\ loopResult = [kind |-> "returned", text |-> outcome.text, error |-> NoError]
    /\ loopResult.kind = "returned" => LastCallSucceeded
    /\ pc = "done" => loopResult.kind \in {"returned", "threw"}

\* C5: for every sequence of outcomes of the underlying call the loop ends
\* after at most maxAttempts attempts, with the first response that carries
\* text or with an error, and no attempt follows a successful one.
C5_Terminates ==
    /\ []C5_Bounded
    /\ [][LastCallSucceeded => attempts' = attempts]_vars
    /\ (pc = "call") ~> (pc = "done")

C5_Witness ==
    /\ pc = "done" /\ loopResult.kind = "returned"
    /\ attempts = retries /\ retries = MaxRetries

\* C6: the attempt that ends the loop is not followed by a wait: when the
\* loop has ended the number of waits is the number of attempts minus one,
\* and before that every attempt made so far was followed by a wait.
C6_NoWaitAfterLast ==
    /\ pc = "done" => waits = attempts - 1
    /\ LoopRunning => waits = attempts

C6_Witness ==
    /\ pc = "done" /\ loopResult.kind = "threw" /\ LastCallTransient
    /\ attempts = retries /\ retries = MaxRetries /\ waits = retries - 1

(***************************************************************************)
(* Properties of the errors the views show                                 *)
(***************************************************************************)

\* the messages a view can show for a failed request
UserMessages ==
    {MsgGeneric, MsgServer, MsgBadRequest, MsgRateLimit, MsgApiKey}
    \cup {FallbackMessage(f) : f \in Features}

\* an error message has reached the state of the view
ErrorShown ==
    \/ uiError # ""
    \/ \E k \in 1..Len(messages) :
          messages[k].role = "model" /\ messages[k].text \in UserMessages

\* the text the loop returned cannot be decoded by a feature that decodes it
MalformedResponse ==
    /\ feature \in {"summary", "problems"}
    /\ loopResult.kind = "returned"
    /\ ~JSONparse(CleanedText(loopResult.text)).ok

C7_WitnessRecovered ==
    /\ pc = "done" /\ feature = "tutor" /\ LastCallSucceeded
    /\ attempts = 3 /\ ~ErrorShown

\* C8: when the call succeeds and the payload cannot be decoded after the
\* fences are stripped, generateTopicSummary and generatePracticeProblem fail
\* with the malformed-response message, and that message is what the view
\* shows.
C8_MalformedReported ==
    (pc = "done" /\ MalformedResponse) =>
        /\ svc.status = "rejected"
        /\ svc.message = MsgBadFormat
        /\ uiError = MsgBadFormat

\* C8, what the code does: the request fails and the view shows the message
\* of handleApiError for an error text without any marker.
C8_MalformedShownAsGeneric ==
    (pc = "done" /\ MalformedResponse) =>
        /\ svc.status = "rejected"
        /\ uiError = MsgGeneric

\* the selection of the message the claim describes, test by test
SelectedMessage(errorMessage, message) ==
    LET has(marker) == Includes(errorMessage, marker)
        server == has("500") \/ has("503") \/ has("Rpc failed")
        key == has("API key not valid") \/ has("API_KEY")
    IN  /\ server => message = MsgServer
        /\ (~server /\ has("400")) => message = MsgBadRequest
        /\ (~server /\ ~has("400") /\ has("429")) => message = MsgRateLimit
        /\ (~server /\ ~has("400") /\ ~has("429") /\ key) => message = MsgApiKey
        /\ (~server /\ ~has("400") /\ ~has("429") /\ ~key) => message = MsgGeneric

\* the error that made the request fail, before its conversion
RawFailure ==
    IF loopResult.kind = "threw" THEN lastError ELSE NewError(MsgBadFormat)

\* C10: every failure of a generation entry point reaches the caller as one
\* message of the fixed set, selected from the error text in the order
\* 500/503/Rpc failed, 400, 429, API key, else generic; the raw error text
\* is no part of the message, and the view shows that message.
C10_ErrorsConverted ==
    (pc = "done" /\ svc.status = "rejected") =>
        /\ svc.message \in {MsgGeneric, MsgServer, MsgBadRequest, MsgRateLimit, MsgApiKey}
        /\ SelectedMessage(errorToString(RawFailure), svc.message)
        /\ ~Includes(svc.message, errorToString(RawFailure))
        /\ ~Includes(svc.message, RawFailure.message)
        /\ IF feature = "tutor"
           THEN messages[Len(messages)] = [role |-> "model", text |-> svc.message]
           ELSE uiError = svc.message

C10_Witness ==
    /\ pc = "done" /\ svc.status = "rejected"
    /\ Includes(lastError.message, "API key not valid")
    /\ svc.message = MsgBadRequest /\ uiError = MsgBadRequest

(***************************************************************************)
(* Properties of parseJsonFromResponse                                     *)
(***************************************************************************)

Decodable(text) == JSONparse(text).ok

\* a leading fence tagged json, with the white space that may surround it
TaggedLeads == {JsonFence, JsonFence \o "\n", " \n" \o JsonFence \o "\n"}
\* a trailing bare fence, with the white space that may surround it
BareTrails == {Fence, "\n" \o Fence, "\n" \o Fence \o " \n"}

Parsed == parseOut # NotParsed

\* C9: a decodable payload between a leading fence tagged json and a
\* trailing bare fence (each of them optional) parses to the value of the
\* payload alone; the text decoded is the trimmed text less at most one
\* leading and one trailing fence token; and when that text cannot be decoded
\* the parse yields no value and fails.
C9_FenceStripping ==
    Parsed =>
        /\ ( /\ Decodable(rawText.payload)
             /\ rawText.lead \in TaggedLeads \cup {""}
             /\ rawText.trail \in BareTrails \cup {""} )
           => /\ parseOut.ok
              /\ parseOut.value = JSONparse(rawText.payload).value
              /\ parseOut = parseJsonFromResponse(rawText.payload)
        /\ \E pre \in {"", JsonFence, JsonFence \o "\n"}, suf \in {"", Fence} :
              Trim(TextOf(rawText)) = pre \o CleanedText(TextOf(rawText)) \o suf
        /\ ~Decodable(CleanedText(TextOf(rawText)))
           => parseOut = [ok |-> FALSE, value |-> "", error |-> NewError(MsgBadFormat)]

C9_Witness ==
    /\ Parsed /\ parseOut.ok
    /\ rawText = [lead |-> JsonFence \o "\n", payload |-> "{\"a\":1}",
                  trail |-> "\n" \o Fence]
    /\ parseOut.value = "{\"a\":1}"


(***************************************************************************)
(* exportToPdf: the block paginator.  Three versions of the function are   *)
(* in the repository: "service" (src/services/exportService.ts), "rules"   *)
(* (the one that also selects hr elements and draws them as lines) and     *)
(* "inline" (the one that selects blocks by their inline style and leaves  *)
(* a 4mm gap).  Lengths are millimetres, canvas sizes are pixels.          *)
(***************************************************************************)

ExportVersions == {"service", "rules", "inline"}

\* new jsPDF('p', 'mm', 'a4'): the page size of the document
pdfWidth == 210
pdfHeight == 297
margin == 15
usableWidthMM == pdfWidth - (margin * 2)
usableHeightMM == pdfHeight - (margin * 2)

\* the gap left under an image
BlockGap == 2
InlineBlockGap == 4
\* the height an hr must find free, and the height it takes
RuleReserveMM == 10
RuleAdvanceMM == 6

\* the longest content of an export
MaxBlocks == 3

\* canvases whose scaled height is a whole number of millimetres: a block
\* that fills a third of a page, two that end exactly at and just past the
\* bottom margin after it, one that leaves less than 10mm and more than 6mm
\* of the page free, one as tall as the usable height, one taller
CanvasWidth == usableWidthMM * 10
CanvasOf(mm) == [width |-> CanvasWidth, height |-> mm * 10]
BlockHeightsMM == {100, 165, 166, 257, usableHeightMM, usableHeightMM + 1}
WholeHeightsMM == {100, usableHeightMM + 1}

HtmlElements ==
    [tag : {"block"}, canvas : {CanvasOf(h) : h \in BlockHeightsMM}]
        \cup {[tag |-> "hr", canvas |-> CanvasOf(1)]}

RECURSIVE SeqsUpTo(_, _)
SeqsUpTo(S, n) ==
    IF n = 0 THEN {<<>>}
    ELSE LET shorter == SeqsUpTo(S, n - 1)
         IN  shorter \cup {Append(q, e) : q \in {r \in shorter : Len(r) = n - 1}, e \in S}

HtmlContents == SeqsUpTo(HtmlElements, MaxBlocks)

\* querySelectorAll: only the "rules" version lists hr in its selector
Matches(version, element) == element.tag = "block" \/ (version = "rules" /\ element.tag = "hr")

RECURSIVE SelectAll(_, _)
SelectAll(version, elements) ==
    IF elements = <<>> THEN <<>>
    ELSE LET rest == SelectAll(version, Tail(elements))
         IN  IF Matches(version, Head(elements)) THEN <<Head(elements)>> \o rest ELSE rest

\* a version that takes the blocks last to first
ContentBlocks_Reversed(version, elements, whole) ==
    LET selected == SelectAll(version, elements)
    IN  IF Len(selected) = 0
        THEN <<[tag |-> "whole", canvas |-> whole]>>
        ELSE [n \in 1..Len(selected) |-> selected[Len(selected) + 1 - n]]

\* a version that exports nothing when the selector matches nothing
ContentBlocks_NoFallback(version, elements, whole) == SelectAll(version, elements)

\* contentBlocks after the fallback: the whole content as one block
ContentBlocks(version, elements, whole) ==
    IF Len(SelectAll(version, elements)) = 0
    THEN <<[tag |-> "whole", canvas |-> whole]>>
    ELSE SelectAll(version, elements)

\* the container each version attaches to document.body for the whole run
RunContainer(version) == IF version = "inline" THEN "tempContainer" ELSE "sourceContainer"

\* the scaled height of an image; the canvases above make the division exact
ElementHeightMM(canvas) == (canvas.height * usableWidthMM) \div canvas.width

Gap(version) == IF version = "inline" THEN InlineBlockGap ELSE BlockGap

\* a page check that also breaks on an empty page
NeedsNewPage_EvenIfEmpty(y, elementHeightMM) == y + elementHeightMM > usableHeightMM + margin

\* a page check that leaves an image where it is when no page can hold it
NeedsNewPage_OnlyIfItHelps(y, elementHeightMM) ==
    /\ y > margin /\ y + elementHeightMM > usableHeightMM + margin
    /\ elementHeightMM <= usableHeightMM

\* a page check that lets an image run into the bottom margin
NeedsNewPage_IntoMargin(y, elementHeightMM) == y > margin /\ y + elementHeightMM > pdfHeight

\* the page check of an image
NeedsNewPage(y, elementHeightMM) ==
    y > margin /\ y + elementHeightMM > usableHeightMM + margin

\* a page check of an hr that looks at the height the hr takes
RuleNeedsNewPage_ByAdvance(y) == y + RuleAdvanceMM > usableHeightMM + margin

\* an hr that always starts a page of its own
RuleNeedsNewPage_Always(y) == TRUE

\* an hr that is drawn wherever the cursor is
RuleNeedsNewPage_Never(y) == FALSE

\* the page check of an hr
RuleNeedsNewPage(y) == y + RuleReserveMM > usableHeightMM + margin

IsRule(version, block) == version = "rules" /\ block.tag = "hr"

InLoop == epc = "loop" /\ blockIndex <= Len(contentBlocks)
Block == contentBlocks[blockIndex]

\* what one placement adds to the document
Placement(index, kind, brokePage, height) ==
    [block |-> index, kind |-> kind,
     page |-> IF brokePage THEN pageCount + 1 ELSE pageCount,
     y |-> IF brokePage THEN margin ELSE currentY,
     height |-> height, newPage |-> brokePage, cursor |-> currentY]

\* the message the diagram analyzer shows when its handleExport fails
MsgPrepareExport == "An error occurred while preparing the file for export."

\* an export whose catch block throws the error on
PromiseAfterCatch_Rethrown == "rejected"

\* how the promise of exportToPdf settles after its catch block
PromiseAfterCatch == "resolved"

\* the error state of the caller after it awaited the promise: the catch
\* block of handleExport runs when the promise rejected
CallerErrorAfter(promise) == IF promise = "rejected" THEN MsgPrepareExport ELSE callerError

ExportInit == GenerationInit /\ ParseIdle /\ TutorIdle /\ AppIdle /\ ExportIdle

\* exportToPdf is called: everything up to the head of the for loop
ExportBegin(version, elements, whole) ==
    /\ epc = "idle"
    /\ exportVersion' = version
    /\ htmlBlocks' = elements
    /\ wholeCanvas' = whole
    /\ pageCount' = 1
    /\ currentY' = margin
    /\ bodyChildren' = {RunContainer(version)}
    /\ contentBlocks' = ContentBlocks(version, elements, whole)
    /\ blockIndex' = 1
    /\ epc' = "loop"
    /\ exportPromise' = "pending"
    /\ UNCHANGED <<placements, savedFile, alertShown, exportLog, callerError>>
    /\ UNCHANGED <<genVars, parseVars, tutorVars, appVars>>

\* one iteration of the loop on an hr: no canvas, a line at the cursor
DrawRule ==
    /\ InLoop /\ IsRule(exportVersion, Block)
    /\ LET brokePage == RuleNeedsNewPage(currentY)
           y == IF brokePage THEN margin ELSE currentY
       IN  /\ pageCount' = IF brokePage THEN pageCount + 1 ELSE pageCount
           /\ placements' = Append(placements,
                                   Placement(blockIndex, "line", brokePage, RuleAdvanceMM))
           /\ currentY' = y + RuleAdvanceMM
    /\ exportLog' = Append(exportLog, [op |-> "line", block |-> blockIndex])
    /\ blockIndex' = blockIndex + 1
    /\ UNCHANGED <<exportVersion, htmlBlocks, wholeCanvas, epc, contentBlocks,
                   savedFile, alertShown, bodyChildren, exportPromise, callerError>>
    /\ UNCHANGED <<genVars, parseVars, tutorVars, appVars>>

\* one iteration of the loop on any other block, up to the await of html2canvas
Rasterize ==
    /\ InLoop /\ ~IsRule(exportVersion, Block)
    /\ bodyChildren' = IF exportVersion = "rules"
                       THEN bodyChildren \cup {"renderContainer"}
                       ELSE bodyChildren
    /\ exportLog' = Append(exportLog, [op |-> "rasterize", block |-> blockIndex])
    /\ epc' = "raster"
    /\ UNCHANGED <<exportVersion, htmlBlocks, wholeCanvas, contentBlocks, blockIndex,
                   currentY, pageCount, placements, savedFile, alertShown,
                   exportPromise, callerError>>
    /\ UNCHANGED <<genVars, parseVars, tutorVars, appVars>>

\* html2canvas resolves: the rest of the iteration
PlaceImage ==
    /\ epc = "raster"
    /\ LET elementHeightMM == ElementHeightMM(Block.canvas)
           brokePage == NeedsNewPage(currentY, elementHeightMM)
           y == IF brokePage THEN margin ELSE currentY
       IN  /\ pageCount' = IF brokePage THEN pageCount + 1 ELSE pageCount
           /\ placements' = Append(placements,
                                   Placement(blockIndex, "image", brokePage, elementHeightMM))
           /\ currentY' = y + elementHeightMM + Gap(exportVersion)
    /\ bodyChildren' = bodyChildren \ {"renderContainer"}
    /\ exportLog' = Append(exportLog, [op |-> "place", block |-> blockIndex])
    /\ blockIndex' = blockIndex + 1
    /\ epc' = "loop"
    /\ UNCHANGED <<exportVersion, htmlBlocks, wholeCanvas, contentBlocks,
                   savedFile, alertShown, exportPromise, callerError>>
    /\ UNCHANGED <<genVars, parseVars, tutorVars, appVars>>

\* an export that saves what it has when html2canvas rejects
RasterizeFails_SavesAnyway ==
    /\ epc = "raster"
    /\ alertShown' = TRUE
    /\ savedFile' = TRUE
    /\ exportLog' = Append(exportLog, [op |-> "failed", block |-> blockIndex])
    /\ epc' = "failed"
    /\ exportPromise' = PromiseAfterCatch
    /\ callerError' = CallerErrorAfter(PromiseAfterCatch)
    /\ UNCHANGED <<exportVersion, htmlBlocks, wholeCanvas, contentBlocks, blockIndex,
                   currentY, pageCount, placements, bodyChildren>>
    /\ UNCHANGED <<genVars, parseVars, tutorVars, appVars>>

\* html2canvas rejects: the catch block
RasterizeFails ==
    /\ epc = "raster"
    /\ alertShown' = TRUE
    /\ exportLog' = Append(exportLog, [op |-> "failed", block |-> blockIndex])
    /\ epc' = "failed"
    /\ exportPromise' = PromiseAfterCatch
    /\ callerError' = CallerErrorAfter(PromiseAfterCatch)
    /\ UNCHANGED <<exportVersion, htmlBlocks, wholeCanvas, contentBlocks, blockIndex,
                   currentY, pageCount, placements, savedFile, bodyChildren>>
    /\ UNCHANGED <<genVars, parseVars, tutorVars, appVars>>

\* the loop is over: the container is removed and the document saved
SaveDocument ==
    /\ epc = "loop" /\ blockIndex > Len(contentBlocks)
    /\ bodyChildren' = bodyChildren \ {RunContainer(exportVersion)}
    /\ savedFile' = TRUE
    /\ epc' = "saved"
    /\ exportPromise' = "resolved"
    /\ UNCHANGED <<exportVersion, htmlBlocks, wholeCanvas, contentBlocks, blockIndex,
                   currentY, pageCount, placements, alertShown, exportLog, callerError>>
    /\ UNCHANGED <<genVars, parseVars, tutorVars, appVars>>

\* exportToPdf is called and the jspdf library is not there: the first
\* statement of the try block throws
LibraryMissing(version, elements, whole) ==
    /\ epc = "idle"
    /\ exportVersion' = version
    /\ htmlBlocks' = elements
    /\ wholeCanvas' = whole
    /\ alertShown' = TRUE
    /\ exportLog' = Append(exportLog, [op |-> "threw", block |-> 0])
    /\ epc' = "failed"
    /\ exportPromise' = PromiseAfterCatch
    /\ callerError' = CallerErrorAfter(PromiseAfterCatch)
    /\ UNCHANGED <<contentBlocks, blockIndex, currentY, pageCount, placements,
                   savedFile, bodyChildren>>
    /\ UNCHANGED <<genVars, parseVars, tutorVars, appVars>>

\* html2canvas resolves and toDataURL or addImage throws
PlacementThrows ==
    /\ epc = "raster"
    /\ bodyChildren' = bodyChildren \ {"renderContainer"}
    /\ alertShown' = TRUE
    /\ exportLog' = Append(exportLog, [op |-> "threw", block |-> blockIndex])
    /\ epc' = "failed"
    /\ exportPromise' = PromiseAfterCatch
    /\ callerError' = CallerErrorAfter(PromiseAfterCatch)
    /\ UNCHANGED <<exportVersion, htmlBlocks, wholeCanvas, contentBlocks, blockIndex,
                   currentY, pageCount, placements, savedFile>>
    /\ UNCHANGED <<genVars, parseVars, tutorVars, appVars>>

\* the loop is over, the container is removed and pdf.save throws
SaveThrows ==
    /\ epc = "loop" /\ blockIndex > Len(contentBlocks)
    /\ bodyChildren' = bodyChildren \ {RunContainer(exportVersion)}
    /\ alertShown' = TRUE
    /\ exportLog' = Append(exportLog, [op |-> "threw", block |-> blockIndex])
    /\ epc' = "failed"
    /\ exportPromise' = PromiseAfterCatch
    /\ callerError' = CallerErrorAfter(PromiseAfterCatch)
    /\ UNCHANGED <<exportVersion, htmlBlocks, wholeCanvas, contentBlocks, blockIndex,
                   currentY, pageCount, placements, savedFile>>
    /\ UNCHANGED <<genVars, parseVars, tutorVars, appVars>>

\* handleExport of the diagram analyzer when fileToBase64 rejects: its own
\* catch block, exportToPdf is not called
ReadImageFails ==
    /\ epc = "idle"
    /\ callerError' = MsgPrepareExport
    /\ epc' = "unread"
    /\ UNCHANGED <<exportVersion, htmlBlocks, wholeCanvas, contentBlocks, blockIndex,
                   currentY, pageCount, placements, savedFile, alertShown,
                   bodyChildren, exportLog, exportPromise>>
    /\ UNCHANGED <<genVars, parseVars, tutorVars, appVars>>

ExportNext ==
    \/ epc = "idle" /\ \E version \in ExportVersions, elements \in HtmlContents,
                          h \in WholeHeightsMM : ExportBegin(version, elements, CanvasOf(h))
    \/ DrawRule
    \/ Rasterize
    \/ PlaceImage
    \/ RasterizeFails
    \/ SaveDocument
    \/ epc = "idle" /\ \E version \in ExportVersions, elements \in HtmlContents,
                          h \in WholeHeightsMM : LibraryMissing(version, elements, CanvasOf(h))
    \/ PlacementThrows
    \/ SaveThrows
    \/ ReadImageFails

SpecExport == ExportInit /\ [][ExportNext]_vars


(***************************************************************************)
(* Properties of the block paginator                                       *)
(***************************************************************************)

Placed == 1..Len(placements)
Images == {n \in Placed : placements[n].kind = "image"}
Lines == {n \in Placed : placements[n].kind = "line"}

\* the page the document ended with before the n-th placement
PageBefore(n) == IF n = 1 THEN 1 ELSE placements[n - 1].page
\* the cursor after the n-th placement
CursorAfter(n) == IF n < Len(placements) THEN placements[n + 1].cursor ELSE currentY
StartsNewPage(n) == placements[n].page # PageBefore(n)
PageBottom == pdfHeight - margin

ThreeThirds == [n \in 1..3 |-> [tag |-> "block", canvas |-> CanvasOf(100)]]

\* C11: an image starts a new page exactly when the page is not empty and
\* the image would end below the bottom margin; it is then placed at the top
\* margin, otherwise at the cursor, and the cursor moves on by its height
\* plus the gap; three blocks of 100mm with a 2mm gap end on 2 pages, the
\* second holding the third block only
C11_PageBreakRule ==
    /\ \A n \in Images :
          LET p == placements[n]
          IN  /\ StartsNewPage(n) <=>
                    (p.cursor > margin /\ p.cursor + p.height > PageBottom)
              /\ p.page = IF StartsNewPage(n) THEN PageBefore(n) + 1 ELSE PageBefore(n)
              /\ p.y = IF StartsNewPage(n) THEN margin ELSE p.cursor
              /\ CursorAfter(n) = p.y + p.height + Gap(exportVersion)
    /\ (htmlBlocks = ThreeThirds /\ Gap(exportVersion) = 2 /\ epc = "saved")
          => /\ pageCount = 2
             /\ [n \in Placed |-> placements[n].page] = <<1, 1, 2>>

C11_Witness ==
    /\ htmlBlocks = ThreeThirds /\ exportVersion = "service" /\ epc = "saved"
    /\ pageCount = 2
    /\ placements[3].page = 2 /\ placements[3].y = margin /\ currentY = margin + 102


\* how many times the k-th block of contentBlocks was added to the document
TimesPlaced(k) == Cardinality({n \in Placed : placements[n].block = k})
FitsAPage(n) == placements[n].height <= usableHeightMM
WithinMargins(n) ==
    /\ placements[n].y >= margin
    /\ placements[n].y + placements[n].height <= PageBottom

\* C12: no block is cut: every block the loop has passed is in the document
\* exactly once, on one page, none is there twice, a saved document holds
\* every block, and every block no taller than the usable height lies
\* between the top and the bottom margin of its page
C12_NoBlockCut ==
    /\ \A k \in 1..Len(contentBlocks) :
          TimesPlaced(k) = IF k < blockIndex THEN 1 ELSE 0
    /\ epc = "saved" => \A k \in 1..Len(contentBlocks) : TimesPlaced(k) = 1
    /\ \A n \in Placed :
          /\ placements[n].page \in 1..pageCount
          /\ FitsAPage(n) => WithinMargins(n)

C12_Witness ==
    /\ epc = "saved" /\ Len(contentBlocks) = 3 /\ Len(placements) = 3
    /\ placements[2].height = usableHeightMM /\ StartsNewPage(2) /\ WithinMargins(2)
    /\ placements[3].height = 166 /\ StartsNewPage(3) /\ WithinMargins(3)


\* the placements that came before the n-th on the same page
EarlierOnPage(n) == {m \in Placed : m < n /\ placements[m].page = placements[n].page}

\* C13: whatever is placed, image or line, is placed either at the top
\* margin of a page that holds nothing yet, or where it ends at or above the
\* bottom margin
C13_PlacementCursor ==
    \A n \in Placed :
        LET p == placements[n]
        IN  /\ p.y = margin \/ p.y + p.height <= PageBottom
            /\ p.kind = "line" => (p.y = margin \/ p.y + RuleReserveMM <= PageBottom)
            /\ p.y = margin <=> EarlierOnPage(n) = {}

C13_Witness ==
    /\ exportVersion = "rules" /\ Len(placements) = 3
    /\ placements[1].kind = "image" /\ placements[1].y = margin
    /\ placements[1].height > usableHeightMM
    /\ placements[2].kind = "line" /\ StartsNewPage(2) /\ placements[2].y = margin
    /\ placements[3].kind = "image" /\ placements[3].y = margin + RuleAdvanceMM
    /\ placements[3].y + placements[3].height <= PageBottom


Oversized == {n \in Images : placements[n].height > usableHeightMM}
OthersOnPage(n) == {m \in Placed : m # n /\ placements[m].page = placements[n].page}

\* C14: an image taller than the usable height is placed all the same, at
\* the top margin of a page that holds nothing else, whether it comes first,
\* in the middle or last; the export goes on and saves the document
C14_OversizedAlone ==
    /\ \A n \in Oversized : placements[n].y = margin /\ OthersOnPage(n) = {}
    /\ \A k \in 1..Len(contentBlocks) :
          (k < blockIndex /\ ~IsRule(exportVersion, contentBlocks[k])
              /\ ElementHeightMM(contentBlocks[k].canvas) > usableHeightMM)
            => \E n \in Oversized : placements[n].block = k
    /\ (epc = "raster" /\ ElementHeightMM(Block.canvas) > usableHeightMM)
          => ENABLED PlaceImage

C14_Witness ==
    /\ exportVersion = "rules" /\ epc = "saved" /\ Len(placements) = 3
    /\ placements[1].kind = "line"
    /\ 2 \in Oversized /\ placements[2].y = margin /\ placements[2].page = 2
    /\ placements[3].kind = "image" /\ placements[3].page = 3
    /\ pageCount = 3

\* the oversized image comes first, and last
C14_WitnessEnds ==
    /\ epc = "saved" /\ Oversized = {1, 3} /\ pageCount = 3
    /\ placements[2].page = 2


\* the positions of htmlBlocks the selector of the running version matches
MatchedPositions ==
    {q \in 1..Len(htmlBlocks) :
        \/ htmlBlocks[q].tag = "block"
        \/ htmlBlocks[q].tag = "hr" /\ exportVersion = "rules"}
\* the k-th of them in document order
KthMatched(k) ==
    CHOOSE q \in MatchedPositions : Cardinality({r \in MatchedPositions : r < q}) = k - 1
Before(m, n) ==
    \/ placements[m].page < placements[n].page
    \/ placements[m].page = placements[n].page /\ placements[m].y < placements[n].y
LogStarts(k) == {a \in 1..Len(exportLog) :
                    exportLog[a].block = k /\ exportLog[a].op \in {"rasterize", "line"}}
LogPlaced(k) == {a \in 1..Len(exportLog) :
                    exportLog[a].block = k /\ exportLog[a].op \in {"place", "line"}}

\* C15: blocks are paginated in the order they have in the content: the
\* n-th placement is the n-th matched element, an earlier block lies on an
\* earlier page or higher on the same page, and no step on a block is taken
\* before every earlier block is in the document
C15_InOrder ==
    /\ \A n \in Placed :
          /\ placements[n].block = n
          /\ MatchedPositions # {} => contentBlocks[n] = htmlBlocks[KthMatched(n)]
    /\ \A m, n \in Placed : m < n => Before(m, n)
    /\ \A j \in 1..Len(contentBlocks) : \A b \in LogStarts(j) :
          \A k \in 1..(j - 1) : \E a \in LogPlaced(k) : a < b

C15_Witness ==
    /\ epc = "raster" /\ blockIndex = 3 /\ Len(placements) = 2
    /\ htmlBlocks[1] # htmlBlocks[2] /\ htmlBlocks[2] # htmlBlocks[3]
    /\ placements[1].page = placements[2].page
    /\ LogStarts(3) # {} /\ LogPlaced(3) = {}


FailedAt == {a \in 1..Len(exportLog) : exportLog[a].op = "failed"}

\* C16: when html2canvas rejects for a block, the export is over: the
\* document is not saved, the failure alert is shown, and nothing happens to
\* that block or a later one afterwards
C16_FailureAborts ==
    /\ \A a \in FailedAt :
          /\ a = Len(exportLog)
          /\ ~savedFile /\ alertShown /\ epc = "failed"
          /\ \A n \in Placed : placements[n].block < exportLog[a].block
          /\ \A k \in exportLog[a].block + 1 .. Len(contentBlocks) : LogStarts(k) = {}
    /\ epc = "failed" => alertShown /\ ~savedFile
    /\ savedFile => FailedAt = {} /\ ~alertShown

C16_Witness ==
    /\ epc = "failed" /\ alertShown /\ ~savedFile
    /\ Len(contentBlocks) = 3 /\ blockIndex = 2 /\ Len(placements) = 1
    /\ exportLog[Len(exportLog)] = [op |-> "failed", block |-> 2]


NothingSelected == exportVersion # "none" /\ MatchedPositions = {}

\* C17 as stated: when the selector matches no element of the content, the
\* export saves a document in which no image is placed
C17_NoImageWhenNothingSelected ==
    (NothingSelected /\ epc = "saved") => Images = {}

\* C17: when the selector matches no element of the content, the whole
\* content is the one block of the export; unless a step of the export
\* fails, which ends it with the alert, the export saves a document of one
\* page that holds that one image at the top margin
C17_WholeContentIsTheBlock ==
    NothingSelected =>
        /\ epc \in {"loop", "raster", "saved", "failed"}
        /\ pageCount > 0 => contentBlocks = <<[tag |-> "whole", canvas |-> wholeCanvas]>>
        /\ epc = "failed" => alertShown /\ ~savedFile
        /\ epc = "saved" =>
              /\ pageCount = 1 /\ Len(placements) = 1 /\ Images = {1}
              /\ placements[1].y = margin
              /\ placements[1].height = ElementHeightMM(wholeCanvas)

C17_Witness ==
    /\ exportVersion = "service" /\ Len(htmlBlocks) = 2 /\ NothingSelected
    /\ epc = "saved" /\ savedFile /\ Images = {1} /\ pageCount = 1
    /\ placements[1].height > usableHeightMM


RuleBlocks == {k \in 1..Len(contentBlocks) : contentBlocks[k].tag = "hr"}
LogOps(k) == {exportLog[a].op : a \in {b \in 1..Len(exportLog) : exportLog[b].block = k}}

\* C18 as stated: an hr takes a fixed height and starts a new page exactly
\* when an image of that height would
C18_RuleCheckedLikeImage ==
    \E reserved \in 1..usableHeightMM : \A n \in Lines :
        LET p == placements[n]
        IN  /\ StartsNewPage(n) <=>
                  (p.cursor > margin /\ p.cursor + reserved > PageBottom)
            /\ CursorAfter(n) = p.y + reserved

\* C18: an hr is never rasterized or added as an image; it is drawn as a line
\* at the cursor, after a new page was started exactly when less than 10mm
\* are free above the bottom margin, empty page or not, and the cursor then
\* moves on by 6mm
C18_RuleCheck ==
    /\ \A k \in RuleBlocks :
          /\ LogOps(k) \subseteq {"line"}
          /\ \A n \in Placed : placements[n].block = k => placements[n].kind = "line"
          /\ k < blockIndex => \E n \in Lines : placements[n].block = k
    /\ \A n \in Lines :
          LET p == placements[n]
          IN  /\ placements[n].block \in RuleBlocks
              /\ StartsNewPage(n) <=> p.cursor + RuleReserveMM > PageBottom
              /\ p.page = IF StartsNewPage(n) THEN PageBefore(n) + 1 ELSE PageBefore(n)
              /\ p.y = IF StartsNewPage(n) THEN margin ELSE p.cursor
              /\ CursorAfter(n) = p.y + RuleAdvanceMM

C18_Witness ==
    /\ Len(placements) = 3
    /\ placements[1].kind = "image" /\ placements[1].height = 257
    /\ placements[2].kind = "line" /\ placements[2].cursor + RuleAdvanceMM <= PageBottom
    /\ StartsNewPage(2) /\ placements[2].y = margin
    /\ placements[3].kind = "line" /\ ~StartsNewPage(3)
    /\ placements[3].y = margin + RuleAdvanceMM


(***************************************************************************)
(* The tutor view with its calls in flight.  Two versions of the component *)
(* are in the repository: "clearable" (src/components/SocraticTutor.tsx,   *)
(* which has the clear-chat button) and "plain" (the one without it).      *)
(* getSocraticResponse is the promise it returns: it resolves with a text  *)
(* or rejects with an error, at any later time.                            *)
(***************************************************************************)

TutorVersions == {"clearable", "plain"}

\* the most submissions one conversation gets
MaxSubmissions == 3

TutorReplies == {"What do you already know about force?"}
TutorErrors == {NewError(MsgRateLimit), NewError("")}

TutorInit ==
    /\ GenerationInit /\ ParseIdle /\ ExportIdle /\ AppIdle
    /\ tutorVersion \in TutorVersions
    /\ outstanding = {} /\ accepted = 0 /\ answered = <<0>> /\ overlapped = FALSE

\* handleSubmit up to the await; a call it returns from early changes nothing
TutorSubmit(text) ==
    /\ accepted < MaxSubmissions
    /\ ~(Trim(text) = "" \/ isLoading)
    /\ messages' = Append(messages, [role |-> "user", text |-> Trim(text)])
    /\ isLoading' = TRUE
    /\ accepted' = accepted + 1
    /\ outstanding' = outstanding \cup {accepted + 1}
    /\ answered' = Append(answered, accepted + 1)
    /\ overlapped' = (overlapped \/ outstanding # {})
    /\ UNCHANGED <<tutorVersion, loopVars, uiError, uiResult, parseVars, exportVars, appVars>>

\* the call of submission k resolves: the rest of the try block, and finally
TutorResponse(k, text) ==
    /\ k \in outstanding
    /\ messages' = Append(messages, [role |-> "model", text |-> text])
    /\ isLoading' = FALSE
    /\ outstanding' = outstanding \ {k}
    /\ answered' = Append(answered, k)
    /\ UNCHANGED <<tutorVersion, accepted, overlapped, loopVars, uiError, uiResult,
                   parseVars, exportVars, appVars>>

\* the call of submission k rejects: the catch block, and finally
TutorFailure(k, error) ==
    /\ k \in outstanding
    /\ messages' = Append(messages, [role |-> "model",
                                     text |-> MessageOrFallback("tutor", error.message)])
    /\ isLoading' = FALSE
    /\ outstanding' = outstanding \ {k}
    /\ answered' = Append(answered, k)
    /\ UNCHANGED <<tutorVersion, accepted, overlapped, loopVars, uiError, uiResult,
                   parseVars, exportVars, appVars>>

\* handleClearChat when the user confirms
ClearChat ==
    /\ tutorVersion = "clearable"
    /\ messages' = <<Greeting>>
    /\ isLoading' = FALSE
    /\ answered' = <<0>>
    /\ UNCHANGED <<tutorVersion, outstanding, accepted, overlapped, loopVars,
                   uiError, uiResult, parseVars, exportVars, appVars>>

TutorNext ==
    \/ \E text \in Inputs : TutorSubmit(text)
    \/ \E k \in 1..MaxSubmissions, text \in TutorReplies : TutorResponse(k, text)
    \/ \E k \in 1..MaxSubmissions, error \in TutorErrors : TutorFailure(k, error)
    \/ ClearChat

SpecTutor == TutorInit /\ [][TutorNext]_vars

(***************************************************************************)
(* Properties of the conversation                                          *)
(***************************************************************************)

\* C19: at most one getSocraticResponse call is outstanding, and no
\* submission was accepted while one was
C19_OneInFlight == Cardinality(outstanding) <= 1 /\ ~overlapped

ModelMessages == {n \in 2..Len(messages) : messages[n].role = "model"}
UserTurns == {n \in 2..Len(messages) : messages[n].role = "user"}

\* C20: the list starts with the greeting, every later message of the model
\* comes right after the user message of the submission it answers, and
\* every submission gets one such message, none two
C20_Alternation ==
    /\ messages[1] = Greeting
    /\ \A n \in ModelMessages :
          messages[n - 1].role = "user" /\ n - 1 > 1 /\ answered[n - 1] = answered[n]
    /\ \A n \in UserTurns :
          Cardinality({m \in ModelMessages : answered[m] = answered[n]})
              = IF answered[n] \in outstanding THEN 0 ELSE 1

\* the same two properties hold of the version without the clear-chat button
PlainTutorIsOrderly ==
    tutorVersion = "plain" => C19_OneInFlight /\ C20_Alternation


(***************************************************************************)
(* The two classifiers of service errors                                   *)
(***************************************************************************)

TransientMessages == {MsgServer, MsgRateLimit}

\* C23: an error the retry loop retried until the attempts were used up is
\* reported with the server-unavailable or the rate-limit message, and a
\* request that is reported with the invalid-request message was not retried
C23_ClassifiersAgree ==
    /\ (pc = "done" /\ LastCallTransient /\ attempts = retries)
          => (svc.status = "rejected" /\ svc.message \in TransientMessages)
    /\ (pc = "done" /\ svc.status = "rejected" /\ svc.message = MsgBadRequest)
          => waits = 0


OnPage(pg) == {n \in Placed : placements[n].page = pg}

\* C28: no page of the document is empty: a page that was added holds what
\* was placed right after the page break, and a saved document holds
\* something on every page, the first included
C28_NoEmptyPage ==
    /\ \A pg \in 2..pageCount : OnPage(pg) # {}
    /\ \A n \in Placed : StartsNewPage(n) => placements[n].y = margin
    /\ placements # <<>> => OnPage(1) # {}
    /\ epc = "saved" => \A pg \in 1..pageCount : OnPage(pg) # {}

C28_Witness ==
    /\ exportVersion = "rules" /\ epc = "saved" /\ pageCount = 3
    /\ placements[1].kind = "line" /\ OnPage(1) = {1}
    /\ OnPage(2) = {2} /\ OnPage(3) = {3}


ExportEnded == epc \in {"saved", "failed"}

\* C29: when a run of exportToPdf has ended, by saving or by a failure, no
\* container it attached to document.body is attached any more
C29_NoContainerLeft == ExportEnded => bodyChildren = {}

\* what the code does: the containers are gone after a run that got past the
\* loop, and a run that failed inside the loop leaves its container attached
C29_ContainerLeftOnFailure ==
    /\ epc = "saved" => bodyChildren = {}
    /\ FailedAt # {} => RunContainer(exportVersion) \in bodyChildren

LastStep == exportLog[Len(exportLog)]

\* C30: the promise of exportToPdf never rejects: a run that ended has
\* resolved, every failure inside it, at the library lookup, the
\* rasterization, the placement or the save, ended with the alert, and the
\* caller's error state is set only when reading the image file failed
\* before exportToPdf was called
C30_NeverRejects ==
    /\ exportPromise # "rejected"
    /\ ExportEnded => exportPromise = "resolved"
    /\ epc = "failed" => (alertShown /\ callerError = "")
    /\ callerError # "" => (epc = "unread" /\ exportPromise = "none" /\ ~alertShown)

C30_Witness ==
    /\ epc = "failed" /\ exportPromise = "resolved" /\ alertShown /\ callerError = ""
    /\ LastStep.op = "threw" /\ LastStep.block > Len(contentBlocks)
    /\ Len(placements) = 2

\* the other places of failure, and the failed read of the image file
C30_WitnessLookup ==
    /\ epc = "failed" /\ exportPromise = "resolved" /\ alertShown
    /\ LastStep = [op |-> "threw", block |-> 0]

C30_WitnessPlacement ==
    /\ epc = "failed" /\ exportPromise = "resolved" /\ alertShown
    /\ LastStep = [op |-> "threw", block |-> 2] /\ Len(contentBlocks) = 3

C30_WitnessRead == epc = "unread" /\ callerError = MsgPrepareExport


(***************************************************************************)
(* The application: the service module is loaded, which needs the API key, *)
(* and App shows one view at a time.  A service call of a view is the      *)
(* promise it awaits: it resolves or rejects at any later time.            *)
(***************************************************************************)

Views == {"tutor", "practice", "lab", "diagram"}
ApiKeys == {"", "AIza-build-time-key"}

\* the most reloads of the page
MaxReloads == 2

DefaultTopic == "Conservation of momentum"
DefaultPrompt == "A block sliding on an incline with friction"
Topics == {"", DefaultTopic}
Prompts == {"  ", DefaultPrompt}
ImageFiles == {"first.png", "second.png"}

SampleProblem == [problem |-> "Two carts collide.", correctAnswer |-> "b"]
OptionKeys == {"a", "b", "c", "d"}
ProblemLists == {[n \in 1..k |-> SampleProblem] : k \in 1..MaxProblems}
Summaries == {"{keyConcepts, formulas, solvingTechniques}"}
Feedbacks == {"The normal force is missing."}
SimulationCodes == {"<html>simulation</html>"}
ServiceMessages == {MsgServer, ""}

bootVars == <<activeView, apiKey, appState, aiClient, reloads>>
studyVars == <<topic, problems, summary, selectedOptions, showSolutions>>
diagramVars == <<imageFile, feedbackOf>>
outsideApp == <<loopVars, parseVars, exportVars>>

ProblemsCall == [call |-> "problems", file |-> ""]
SummaryCall == [call |-> "summary", file |-> ""]
SimulationCall == [call |-> "simulation", file |-> ""]
AnalysisCall(file) == [call |-> "analysis", file |-> file]

\* a module that goes on without the key
KeyMissing_Never(key) == FALSE

\* if (!apiKey)
KeyMissing(key) == key = ""

\* a view whose finally block leaves isLoading alone
LoadingAfterSettle_Kept == isLoading

\* finally { setIsLoading(false) }
LoadingAfterSettle == FALSE

\* a study pack request that also drops the summary
StudyPackReset_Everything ==
    [problems |-> <<>>, selectedOptions |-> NoSelections,
     showSolutions |-> NoneShown, summary |-> ""]

\* what handleGenerateStudyPack resets before the call
StudyPackReset ==
    [problems |-> <<>>, selectedOptions |-> NoSelections,
     showSolutions |-> NoneShown, summary |-> summary]

\* what handleGenerateSummary resets before the call
SummaryReset ==
    [problems |-> problems, selectedOptions |-> selectedOptions,
     showSolutions |-> showSolutions, summary |-> ""]

\* a handler that takes a new option whatever is shown
OptionSelected_Always(index, option) == [selectedOptions EXCEPT ![index] = option]

\* selectedOptions after handleOptionSelect(index, option)
OptionSelected(index, option) ==
    IF showSolutions[index] THEN selectedOptions
    ELSE [selectedOptions EXCEPT ![index] = option]

\* a solution button that is enabled without a selection
CanShowSolution_Unselected(index) == ~showSolutions[index]

\* the solution button of a problem is enabled
CanShowSolution(index) == ~(selectedOptions[index] = NoOption \/ showSolutions[index])

\* the effect a view runs when it is mounted: the virtual lab calls
\* handleGenerate with its initial prompt
MountEffect(view) ==
    IF view = "lab" /\ Trim(DefaultPrompt) # ""
    THEN isLoading' = TRUE /\ pending' = {SimulationCall}
    ELSE isLoading' = FALSE /\ pending' = {}

\* the state a view is mounted with
FreshView ==
    /\ uiError' = "" /\ uiResult' = ""
    /\ messages' = <<Greeting>> /\ outstanding' = {} /\ accepted' = 0
    /\ answered' = <<0>> /\ overlapped' = FALSE
    /\ topic' = DefaultTopic /\ prompt' = DefaultPrompt
    /\ problems' = <<>> /\ summary' = ""
    /\ selectedOptions' = NoSelections /\ showSolutions' = NoneShown
    /\ imageFile' = "" /\ feedbackOf' = ""

AppInit ==
    /\ GenerationInit /\ ParseIdle /\ ExportIdle
    /\ tutorVersion \in TutorVersions
    /\ outstanding = {} /\ accepted = 0 /\ answered = <<0>> /\ overlapped = FALSE
    /\ activeView = "tutor" /\ apiKey \in ApiKeys /\ appState = "unloaded"
    /\ aiClient = FALSE /\ reloads = 0
    /\ topic = DefaultTopic /\ prompt = DefaultPrompt
    /\ problems = <<>> /\ summary = ""
    /\ selectedOptions = NoSelections /\ showSolutions = NoneShown
    /\ imageFile = "" /\ feedbackOf = "" /\ pending = {}

\* the service module is evaluated: it throws without the key, and creates
\* the client with it
LoadModule ==
    /\ appState = "unloaded"
    /\ IF KeyMissing(apiKey)
       THEN appState' = "failed" /\ aiClient' = FALSE
       ELSE appState' = "ready" /\ aiClient' = TRUE
    /\ UNCHANGED <<activeView, apiKey, reloads, studyVars, prompt, diagramVars, pending>>
    /\ UNCHANGED <<outsideApp, viewVars, tutorVars>>

\* window.location.reload() on the error screen
Reload ==
    /\ appState = "failed" /\ reloads < MaxReloads
    /\ appState' = "unloaded"
    /\ reloads' = reloads + 1
    /\ UNCHANGED <<activeView, apiKey, aiClient, studyVars, prompt, diagramVars, pending>>
    /\ UNCHANGED <<outsideApp, viewVars, tutorVars>>

Mounted(view) == appState = "ready" /\ activeView = view

\* setActiveView(view): the view shown is unmounted and the other mounted
SetActiveView(view) ==
    /\ appState = "ready" /\ view # activeView
    /\ activeView' = view
    /\ FreshView
    /\ MountEffect(view)
    /\ UNCHANGED <<apiKey, appState, aiClient, reloads, tutorVersion, outsideApp>>

SetTopic(text) ==
    /\ Mounted("practice") /\ text # topic
    /\ topic' = text
    /\ UNCHANGED <<bootVars, problems, summary, selectedOptions, showSolutions,
                   prompt, diagramVars, pending, outsideApp, viewVars, tutorVars>>

SetPrompt(text) ==
    /\ (Mounted("lab") \/ Mounted("diagram")) /\ text # prompt
    /\ prompt' = text
    /\ UNCHANGED <<bootVars, studyVars, diagramVars, pending, outsideApp, viewVars,
                   tutorVars>>

\* handleGenerateStudyPack up to the await; its button is disabled while
\* isLoading or without a topic
GenerateStudyPack ==
    /\ Mounted("practice") /\ ~(isLoading \/ Trim(topic) = "")
    /\ isLoading' = TRUE
    /\ uiError' = ""
    /\ problems' = StudyPackReset.problems
    /\ selectedOptions' = StudyPackReset.selectedOptions
    /\ showSolutions' = StudyPackReset.showSolutions
    /\ summary' = StudyPackReset.summary
    /\ pending' = pending \cup {ProblemsCall}
    /\ UNCHANGED <<bootVars, topic, prompt, diagramVars, outsideApp, uiResult,
                   messages, tutorVars>>

StudyPackArrives(problemList) ==
    /\ Mounted("practice") /\ ProblemsCall \in pending
    /\ problems' = problemList
    /\ isLoading' = LoadingAfterSettle
    /\ pending' = pending \ {ProblemsCall}
    /\ UNCHANGED <<bootVars, topic, summary, selectedOptions, showSolutions, prompt,
                   diagramVars, outsideApp, uiError, uiResult, messages, tutorVars>>

StudyPackFails(message) ==
    /\ Mounted("practice") /\ ProblemsCall \in pending
    /\ uiError' = MessageOrFallback("problems", message)
    /\ isLoading' = LoadingAfterSettle
    /\ pending' = pending \ {ProblemsCall}
    /\ UNCHANGED <<bootVars, studyVars, prompt, diagramVars, outsideApp, uiResult,
                   messages, tutorVars>>

\* handleGenerateSummary up to the await
GenerateSummary ==
    /\ Mounted("practice") /\ ~(isLoading \/ Trim(topic) = "")
    /\ isLoading' = TRUE
    /\ uiError' = ""
    /\ problems' = SummaryReset.problems
    /\ selectedOptions' = SummaryReset.selectedOptions
    /\ showSolutions' = SummaryReset.showSolutions
    /\ summary' = SummaryReset.summary
    /\ pending' = pending \cup {SummaryCall}
    /\ UNCHANGED <<bootVars, topic, prompt, diagramVars, outsideApp, uiResult,
                   messages, tutorVars>>

SummaryArrives(summaryData) ==
    /\ Mounted("practice") /\ SummaryCall \in pending
    /\ summary' = summaryData
    /\ isLoading' = LoadingAfterSettle
    /\ pending' = pending \ {SummaryCall}
    /\ UNCHANGED <<bootVars, topic, problems, selectedOptions, showSolutions, prompt,
                   diagramVars, outsideApp, uiError, uiResult, messages, tutorVars>>

SummaryFails(message) ==
    /\ Mounted("practice") /\ SummaryCall \in pending
    /\ uiError' = MessageOrFallback("summary", message)
    /\ isLoading' = LoadingAfterSettle
    /\ pending' = pending \ {SummaryCall}
    /\ UNCHANGED <<bootVars, studyVars, prompt, diagramVars, outsideApp, uiResult,
                   messages, tutorVars>>

\* handleOptionSelect on an option of a problem that is shown
OptionSelect(index, option) ==
    /\ Mounted("practice") /\ index \in 1..Len(problems)
    /\ selectedOptions' = OptionSelected(index, option)
    /\ UNCHANGED <<bootVars, topic, problems, summary, showSolutions, prompt,
                   diagramVars, pending, outsideApp, viewVars, tutorVars>>

\* handleShowSolution; its button is disabled without a selection and once
\* the solution is shown
ShowSolution(index) ==
    /\ Mounted("practice") /\ index \in 1..Len(problems)
    /\ CanShowSolution(index)
    /\ showSolutions' = [showSolutions EXCEPT ![index] = TRUE]
    /\ UNCHANGED <<bootVars, topic, problems, summary, selectedOptions, prompt,
                   diagramVars, pending, outsideApp, viewVars, tutorVars>>

\* handleFileChange with a file
FileChange(file) ==
    /\ Mounted("diagram")
    /\ imageFile' = file
    /\ uiResult' = ""
    /\ uiError' = ""
    /\ feedbackOf' = ""
    /\ UNCHANGED <<bootVars, studyVars, prompt, pending, outsideApp, isLoading,
                   messages, tutorVars>>

\* handleAnalyze up to the await; its button is disabled without a file and
\* while isLoading
Analyze ==
    /\ Mounted("diagram") /\ ~(imageFile = "" \/ isLoading)
    /\ isLoading' = TRUE
    /\ uiError' = ""
    /\ uiResult' = ""
    /\ feedbackOf' = ""
    /\ pending' = pending \cup {AnalysisCall(imageFile)}
    /\ UNCHANGED <<bootVars, studyVars, prompt, imageFile, outsideApp, messages,
                   tutorVars>>

AnalysisArrives(call, analysisResult) ==
    /\ Mounted("diagram") /\ call \in pending
    /\ uiResult' = analysisResult
    /\ feedbackOf' = call.file
    /\ isLoading' = LoadingAfterSettle
    /\ pending' = pending \ {call}
    /\ UNCHANGED <<bootVars, studyVars, prompt, imageFile, outsideApp, uiError,
                   messages, tutorVars>>

AnalysisFails(call, message) ==
    /\ Mounted("diagram") /\ call \in pending
    /\ uiError' = MessageOrFallback("diagram", message)
    /\ isLoading' = LoadingAfterSettle
    /\ pending' = pending \ {call}
    /\ UNCHANGED <<bootVars, studyVars, prompt, diagramVars, outsideApp, uiResult,
                   messages, tutorVars>>

\* handleGenerate of the virtual lab up to the await
LabGenerate ==
    /\ Mounted("lab") /\ ~(isLoading \/ Trim(prompt) = "")
    /\ isLoading' = TRUE
    /\ uiError' = ""
    /\ uiResult' = ""
    /\ pending' = pending \cup {SimulationCall}
    /\ UNCHANGED <<bootVars, studyVars, prompt, diagramVars, outsideApp, messages,
                   tutorVars>>

LabArrives(generatedCode) ==
    /\ Mounted("lab") /\ SimulationCall \in pending
    /\ uiResult' = generatedCode
    /\ isLoading' = LoadingAfterSettle
    /\ pending' = pending \ {SimulationCall}
    /\ UNCHANGED <<bootVars, studyVars, prompt, diagramVars, outsideApp, uiError,
                   messages, tutorVars>>

LabFails(message) ==
    /\ Mounted("lab") /\ SimulationCall \in pending
    /\ uiError' = MessageOrFallback("lab", message)
    /\ isLoading' = LoadingAfterSettle
    /\ pending' = pending \ {SimulationCall}
    /\ UNCHANGED <<bootVars, studyVars, prompt, diagramVars, outsideApp, uiResult,
                   messages, tutorVars>>

\* a pending call of the view shown settles
Settles ==
    \/ \E problemList \in ProblemLists : StudyPackArrives(problemList)
    \/ \E message \in ServiceMessages : StudyPackFails(message)
    \/ \E summaryData \in Summaries : SummaryArrives(summaryData)
    \/ \E message \in ServiceMessages : SummaryFails(message)
    \/ \E call \in pending, analysisResult \in Feedbacks : AnalysisArrives(call, analysisResult)
    \/ \E call \in pending, message \in ServiceMessages : AnalysisFails(call, message)
    \/ \E generatedCode \in SimulationCodes : LabArrives(generatedCode)
    \/ \E message \in ServiceMessages : LabFails(message)

TutorSettles ==
    /\ Mounted("tutor")
    /\ \/ \E k \in 1..MaxSubmissions, text \in TutorReplies : TutorResponse(k, text)
       \/ \E k \in 1..MaxSubmissions, error \in TutorErrors : TutorFailure(k, error)

AppNext ==
    \/ LoadModule
    \/ Reload
    \/ \E view \in Views : SetActiveView(view)
    \/ Mounted("tutor") /\ \E text \in Inputs : TutorSubmit(text)
    \/ TutorSettles
    \/ Mounted("tutor") /\ ClearChat
    \/ \E text \in Topics : SetTopic(text)
    \/ \E text \in Prompts : SetPrompt(text)
    \/ GenerateStudyPack
    \/ GenerateSummary
    \/ \E index \in ProblemIndexes, option \in OptionKeys : OptionSelect(index, option)
    \/ \E index \in ProblemIndexes : ShowSolution(index)
    \/ \E file \in ImageFiles : FileChange(file)
    \/ Analyze
    \/ LabGenerate
    \/ Settles

SpecApp == AppInit /\ [][AppNext]_vars

\* a call that is pending settles
FairSpecApp == SpecApp /\ WF_vars(Settles) /\ WF_vars(TutorSettles)


(***************************************************************************)
(* Properties of the problem generator                                     *)
(***************************************************************************)

Shown == {index \in ProblemIndexes : showSolutions[index]}
Selected == {index \in ProblemIndexes : selectedOptions[index] # NoOption}

SolutionOnlyAfterSelection ==
    /\ Shown \subseteq Selected
    /\ Selected \subseteq 1..Len(problems)
    /\ ProblemsCall \in pending => (problems = <<>> /\ Selected = {} /\ Shown = {})

FreshListIsUntouched ==
    (problems' # problems /\ problems' # <<>>) => (Selected' = {} /\ Shown' = {})

\* C21: the solution of a problem is shown only when an option of that
\* problem is selected, and a list of problems that has just been generated
\* has no option selected and no solution shown
C21_SolutionAfterSelection ==
    []SolutionOnlyAfterSelection /\ [][FreshListIsUntouched]_vars

C21_Witness ==
    /\ Mounted("practice") /\ Len(problems) = 2
    /\ showSolutions[1] /\ selectedOptions[1] = "c"
    /\ ~showSolutions[2] /\ selectedOptions[2] = NoOption


\* a step in which the call starts or settles while its view stays mounted
StartsOrSettles(call) ==
    /\ activeView' = activeView
    /\ (call \in pending) # (call \in pending')

StudyPackKeepsSummary == StartsOrSettles(ProblemsCall) => summary' = summary

SummaryKeepsProblems ==
    StartsOrSettles(SummaryCall) =>
        /\ problems' = problems
        /\ selectedOptions' = selectedOptions
        /\ showSolutions' = showSolutions

\* C24: requesting problems, and the success or the failure of that request,
\* leave the summary as it is; requesting a summary, and its success or
\* failure, leave the problems, the selected options and the solutions
\* shown as they are
C24_GenerationFrames == [][StudyPackKeepsSummary /\ SummaryKeepsProblems]_vars

C24_Witness ==
    /\ Mounted("practice") /\ ProblemsCall \in pending /\ summary # ""
    /\ problems = <<>>

C24_WitnessSummary ==
    /\ Mounted("practice") /\ SummaryCall \in pending /\ summary = ""
    /\ Len(problems) = 2 /\ Shown = {1} /\ Selected = {1, 2}


SelectionFrozen ==
    \A index \in ProblemIndexes :
        (showSolutions[index] /\ showSolutions'[index])
            => selectedOptions'[index] = selectedOptions[index]

\* C25: while the solution of a problem stays shown, no step changes the
\* option selected for it; only a new request for problems, which hides the
\* solutions, clears the selection
C25_SelectionFrozen == [][SelectionFrozen]_vars

C25_Witness ==
    /\ Mounted("practice") /\ Len(problems) = 2
    /\ Shown = {2} /\ selectedOptions[2] = "a" /\ selectedOptions[1] = "d"
    /\ ENABLED OptionSelect(2, "b")


(***************************************************************************)
(* Properties of the application                                           *)
(***************************************************************************)

NoCallEver ==
    /\ pending = {} /\ outstanding = {} /\ accepted = 0
    /\ ~isLoading /\ Len(messages) = 1

\* C22: without the API key the service module never gets past its check:
\* the client is not created, the application is never ready, whatever the
\* number of reloads, and no view ever makes a service call
C22_NoKeyNoCalls ==
    apiKey = "" =>
        /\ ~aiClient
        /\ appState \in {"unloaded", "failed"}
        /\ NoCallEver

C22_Witness ==
    /\ apiKey = "" /\ appState = "failed" /\ reloads = MaxReloads
    /\ ~aiClient /\ NoCallEver

\* C27: a feedback that is shown was produced from the image file that is
\* selected
C27_FeedbackOfCurrentImage ==
    (Mounted("diagram") /\ uiResult # "") => feedbackOf = imageFile


CallsOutstanding == pending # {} \/ outstanding # {}
LoadingOnlyWhileOutstanding == isLoading => CallsOutstanding

\* a request of the view shown is accepted
Accepts == pending' \ pending # {} \/ outstanding' \ outstanding # {}
\* a call of the view shown settles
SettlesInView ==
    /\ activeView' = activeView
    /\ pending' # pending \/ outstanding' # outstanding
    /\ pending' \subseteq pending /\ outstanding' \subseteq outstanding
ResultRecorded ==
    \/ uiResult' # "" \/ problems' # <<>> \/ summary' # ""
    \/ Len(messages') > Len(messages)
LoadingSteps ==
    /\ Accepts => isLoading'
    /\ SettlesInView => (~isLoading' /\ (ResultRecorded \/ uiError' # ""))

\* C26: in each of the four views isLoading is true only while a call of
\* the view is outstanding, a request that is accepted sets it, the call
\* that settles clears it and leaves a result or an error message, and it
\* does not stay set for ever
C26_LoadingEnds ==
    /\ []LoadingOnlyWhileOutstanding
    /\ [][LoadingSteps]_vars
    /\ (isLoading ~> ~isLoading)

C26_Witness ==
    /\ Mounted("lab") /\ ~isLoading /\ pending = {}
    /\ uiResult # "" /\ uiError = ""

C26_WitnessFailure ==
    /\ Mounted("diagram") /\ ~isLoading /\ pending = {}
    /\ uiResult = "" /\ uiError = FallbackMessage("diagram")

C26_WitnessLoading ==
    /\ Mounted("practice") /\ isLoading /\ pending = {SummaryCall}

=============================================================================
